---- MODULE Spec2Model ----
(***************************************************************************)
(* Model of the statistical core of MIAX14_Tarea_Bloque_1:                 *)
(*   src/src/models/price_series.py   (PriceSeries)                        *)
(*   src/src/models/portfolio.py      (Portfolio)                          *)
(*                                                                         *)
(*   src/src/processors/cleaner.py    (DataCleaner)                        *)
(*                                                                         *)
(* Numbers.  Dates are day numbers.  Every other cell of a table and every *)
(* derived quantity is a float, idealised as an exact rational <<num, den>>*)
(* in lowest terms with den > 0, or the value NaN.  A pandas Series is a   *)
(* function from its index labels to values; a DataFrame is a record of    *)
(* its column names and its rows, the row at position p carrying the       *)
(* RangeIndex label p - 1.                                                 *)
(***************************************************************************)
EXTENDS Integers, Sequences, FiniteSets, TLC

VARIABLES ps, holdings, portfolio, out, err, call, extractor, now, log

vars == <<ps, holdings, portfolio, out, err, call, extractor, now, log>>

(***************************************************************************)
(* Bounds of the model.                                                    *)
(***************************************************************************)
MaxLen == 3
MaxDate == 3
MaxClose == 2
MaxWeight == 2
MaxSims == 2
MaxDays == 2
MaxCalls == 6
MaxTime == 66
MaxSymbols == 2

\* Python's None, as an object without fields of its own
None == [cls |-> "None"]

\* float NaN: the one value whose denominator is 0
NaN == <<0, 0>>

(***************************************************************************)
(* Exact rational arithmetic with NaN propagation (float64 idealised).     *)
(***************************************************************************)
Abs(n) == IF n < 0 THEN -n ELSE n

RECURSIVE Gcd(_, _)
Gcd(a, b) == IF b = 0 THEN a ELSE Gcd(b, a % b)

Rat(n, d) ==
    LET g == Gcd(Abs(n), Abs(d))
        s == IF d < 0 THEN -1 ELSE 1
    IN  <<(s * n) \div g, (s * d) \div g>>

Zero == <<0, 1>>
One == <<1, 1>>

IsNaN(x) == x[2] = 0

\* sums and products are formed over the least common denominator and after
\* cancelling, which keeps the intermediate integers small
Add(x, y) == IF IsNaN(x) \/ IsNaN(y) THEN NaN
             ELSE LET g == Gcd(x[2], y[2])
                  IN  Rat(x[1] * (y[2] \div g) + y[1] * (x[2] \div g),
                          (x[2] \div g) * y[2])

Sub(x, y) == IF IsNaN(x) \/ IsNaN(y) THEN NaN
             ELSE LET g == Gcd(x[2], y[2])
                  IN  Rat(x[1] * (y[2] \div g) - y[1] * (x[2] \div g),
                          (x[2] \div g) * y[2])

Mul(x, y) == IF IsNaN(x) \/ IsNaN(y) THEN NaN
             ELSE LET g == Gcd(Abs(x[1]), y[2])
                      h == Gcd(Abs(y[1]), x[2])
                  IN  Rat((x[1] \div g) * (y[1] \div h), (x[2] \div h) * (y[2] \div g))

\* float division: x / 0 is NaN for x = 0 (numpy) and is not reached otherwise
Div(x, y) == IF IsNaN(x) \/ IsNaN(y) \/ y[1] = 0 THEN NaN
             ELSE Rat(x[1] * y[2], x[2] * y[1])

\* comparisons with NaN are False, as in IEEE 754
Less(x, y) == /\ ~IsNaN(x) /\ ~IsNaN(y)
              /\ LET g == Gcd(x[2], y[2])
                 IN  x[1] * (y[2] \div g) < y[1] * (x[2] \div g)

Leq(x, y) == /\ ~IsNaN(x) /\ ~IsNaN(y)
             /\ LET g == Gcd(x[2], y[2])
                IN  x[1] * (y[2] \div g) <= y[1] * (x[2] \div g)

(***************************************************************************)
(* pandas Series operations used by the code.                              *)
(***************************************************************************)
\* a Series with its values computed once (f @@ <<>> equals f)
Series(f) == f @@ <<>>

NotNaLabels(s) == {k \in DOMAIN s : ~IsNaN(s[k])}

\* Series.dropna(): the entries that are not NaN, under their own labels
dropna(s) == Series([k \in NotNaLabels(s) |-> s[k]])

RECURSIVE SumOver(_, _)
SumOver(s, K) ==
    IF K = {} THEN Zero
    ELSE LET k == CHOOSE x \in K : TRUE IN Add(s[k], SumOver(s, K \ {k}))

RECURSIVE ProdOver(_, _)
ProdOver(s, K) ==
    IF K = {} THEN One
    ELSE LET k == CHOOSE x \in K : TRUE IN Mul(s[k], ProdOver(s, K \ {k}))

RECURSIVE MaxOver(_, _)
MaxOver(s, K) ==
    LET k == CHOOSE x \in K : TRUE
    IN  IF K = {k} THEN s[k]
        ELSE LET m == MaxOver(s, K \ {k}) IN IF Less(m, s[k]) THEN s[k] ELSE m

RECURSIVE MinOver(_, _)
MinOver(s, K) ==
    LET k == CHOOSE x \in K : TRUE
    IN  IF K = {k} THEN s[k]
        ELSE LET m == MinOver(s, K \ {k}) IN IF Less(s[k], m) THEN s[k] ELSE m

\* Series.mean(), skipna: NaN for a series without values
mean(s) ==
    LET K == NotNaLabels(s)
    IN  IF K = {} THEN NaN ELSE Div(SumOver(s, K), <<Cardinality(K), 1>>)

\* Series.var(), ddof = 1: NaN for fewer than two values.  Series.std() is its
\* square root; the model carries the variance, whose sign and NaN-ness are
\* those of the standard deviation.
var(s) ==
    LET K == NotNaLabels(s)
        m == mean(s)
        sq == Series([k \in K |-> Mul(Sub(s[k], m), Sub(s[k], m))])
    IN  IF Cardinality(K) < 2 THEN NaN
        ELSE Div(SumOver(sq, K), <<Cardinality(K) - 1, 1>>)

\* Series.min(), skipna: NaN for a series without values
min(s) ==
    LET K == NotNaLabels(s) IN IF K = {} THEN NaN ELSE MinOver(s, K)

\* Series.cumprod(), skipna: NaN stays NaN and is skipped in the product
cumprod(s) ==
    Series([k \in DOMAIN s |->
        IF IsNaN(s[k]) THEN NaN
        ELSE ProdOver(s, {j \in NotNaLabels(s) : j <= k})])

\* Series.expanding().max(): min_periods = 1, NaN until a value has been seen
expanding_max(s) ==
    Series([k \in DOMAIN s |->
        LET K == {j \in NotNaLabels(s) : j <= k}
        IN  IF K = {} THEN NaN ELSE MaxOver(s, K)])

\* Series.bfill(): every NaN takes the first value after it, if there is one
bfill(s) ==
    Series([k \in DOMAIN s |->
        LET K == {j \in NotNaLabels(s) : j >= k}
        IN  IF K = {} THEN NaN ELSE s[CHOOSE j \in K : \A i \in K : j <= i]])

\* Series.ffill(): every NaN takes the last value before it, if there is one
ffill(s) ==
    Series([k \in DOMAIN s |->
        LET K == {j \in NotNaLabels(s) : j <= k}
        IN  IF K = {} THEN NaN ELSE s[CHOOSE j \in K : \A i \in K : i <= j]])

\* pct_change relating the change to the current row instead of the previous
\* one: 1 - s.shift(1) / s
pct_change_by_current(s) ==
    LET data == IF NotNaLabels(s) = DOMAIN s THEN s ELSE ffill(s)
    IN  Series([k \in DOMAIN s |->
            IF (k - 1) \notin DOMAIN s THEN NaN
            ELSE Sub(One, Div(data[k - 1], data[k]))])

\* Series.pct_change() of pandas 2 (fill_method='pad'): with data = s.ffill()
\* (s itself when it has no NaN), data / data.shift(1) - 1, NaN where there is
\* no previous row
pct_change(s) ==
    LET data == IF NotNaLabels(s) = DOMAIN s THEN s ELSE ffill(s)
    IN  Series([k \in DOMAIN s |->
            IF (k - 1) \notin DOMAIN s THEN NaN
            ELSE Sub(Div(data[k], data[k - 1]), One)])

(***************************************************************************)
(* pandas DataFrame operations used by the code.                           *)
(***************************************************************************)
HasColumn(df, name) == \E j \in 1..Len(df.columns) : df.columns[j] = name

ColumnPos(df, name) == CHOOSE j \in 1..Len(df.columns) : df.columns[j] = name

\* df[name]: the column as a Series under the RangeIndex labels 0..n-1
Column(df, name) ==
    Series([k \in 0..(Len(df.rows) - 1) |-> df.rows[k + 1][ColumnPos(df, name)]])

\* every order of the positions S in which the keys ascend
RECURSIVE AscendingOrders(_, _)
AscendingOrders(key, S) ==
    IF S = {} THEN {<<>>}
    ELSE UNION {{<<i>> \o t : t \in AscendingOrders(key, S \ {i})} :
                    i \in {j \in S : \A k \in S : key[j] <= key[k]}}

\* df.sort_values(by).reset_index(drop=True).  The default sort (quicksort) is
\* not stable, so rows with equal keys may come out in any order: every
\* arrangement of the rows that is ascending in the key is an outcome.
sort_values(df, by) ==
    LET n == Len(df.rows)
        c == ColumnPos(df, by)
        key == [i \in 1..n |-> df.rows[i][c]]
    IN  {[df EXCEPT !.rows = [i \in 1..n |-> df.rows[p[i]]]] :
            p \in AscendingOrders(key, 1..n)}

\* df.rename(columns=mapping): only the names the mapping knows change
rename(columns, mapping) ==
    [j \in 1..Len(columns) |->
        IF columns[j] \in DOMAIN mapping THEN mapping[columns[j]] ELSE columns[j]]

\* str.lower() on the column names the model uses
LowerOf ==
    ("Date" :> "date") @@ ("Close" :> "close") @@ ("CLOSE" :> "close") @@
    ("Volume" :> "volume") @@ ("Foo" :> "foo")

\* lower-casing that leaves the names outside the column vocabulary alone
lower_known_only(name) ==
    IF name \in DOMAIN LowerOf /\ name # "Foo" THEN LowerOf[name] ELSE name

lower(name) == IF name \in DOMAIN LowerOf THEN LowerOf[name] ELSE name

(***************************************************************************)
(* PriceSeries (src/src/models/price_series.py).                           *)
(***************************************************************************)
TradingDays == 252

required == <<"date", "close">>

column_mapping ==
    ("Date" :> "date") @@ ("Close" :> "close") @@ ("Open" :> "open") @@
    ("High" :> "high") @@ ("Low" :> "low") @@ ("Volume" :> "volume") @@
    ("Adj Close" :> "adj_close")

NoError == [type |-> "None", names |-> <<>>]

\* an error that names only the first required column
MissingColumns_first_only == [type |-> "ValueError", names |-> <<"date">>]

\* raise ValueError(f"DataFrame debe contener: {required}")
MissingColumns == [type |-> "ValueError", names |-> required]

\* close.iloc[-1] on a table without rows
IndexError == [type |-> "IndexError", names |-> <<>>]

\* the check of _validate_data: all(col in self.data.columns for col in required)
HasRequired(df) == \A i \in 1..Len(required) : HasColumn(df, required[i])

\* the rest of _validate_data: the table sorted by date under a fresh RangeIndex
\* (the date column of the inputs is of datetime type already)
validate_data(df) == sort_values(df, "date")

standardize_columns(df) ==
    [df EXCEPT !.columns =
        [j \in 1..Len(df.columns) |-> lower(rename(df.columns, column_mapping)[j])]]

calculate_max_drawdown(df) ==
    LET r == pct_change(Column(df, "close"))
        cumulative == cumprod(Series([k \in DOMAIN r |-> Add(One, r[k])]))
        running_max == expanding_max(cumulative)
        drawdown == Series([k \in DOMAIN r |->
                        Div(Sub(cumulative[k], running_max[k]), running_max[k])])
    IN  min(drawdown)

\* mean / std * sqrt(252) is irrational: it is carried as its mean, the variance
\* and the annualisation factor; the literal 0 of the guard is tagged "zero"
SharpeZero == [tag |-> "zero", mean |-> Zero, var |-> One, days |-> 0]

SharpeRatio(m, v) == [tag |-> "ratio", mean |-> m, var |-> v, days |-> TradingDays]

\* a guard that lets a standard deviation of 0 through: returns.std() >= 0
StdNotNegative(v) == Leq(Zero, v)

\* returns.std() > 0, on the variance (std > 0 iff var > 0; NaN > 0 is False)
StdPositive(v) == Less(Zero, v)

\* get_returns(): self.data['close'].pct_change().dropna()
get_returns(self) == dropna(pct_change(Column(self.data, "close")))

\* the dict of _calculate_basic_stats, for a table with at least one row.
\* std_return and volatility hold the squares of the code's values.
calculate_basic_stats(df) ==
    LET returns == dropna(pct_change(Column(df, "close")))
        close == Column(df, "close")
        n == Len(df.rows)
        m == mean(returns)
        v == var(returns)
    IN  [mean_return |-> m,
         std_return |-> v,
         sharpe_ratio |-> IF StdPositive(v) THEN SharpeRatio(m, v) ELSE SharpeZero,
         total_return |-> Sub(Div(close[n - 1], close[0]), One),
         volatility |-> Mul(v, <<TradingDays, 1>>),
         max_drawdown |-> calculate_max_drawdown(df)]

\* __post_init__ with the statistics taken from the table as supplied, before
\* it is sorted
post_init_stats_first(symbol, data, source, asset_type) ==
    IF ~HasRequired(data) THEN {[ok |-> FALSE, error |-> MissingColumns, self |-> None]}
    ELSE {LET std == standardize_columns(df)
          IN  IF Len(df.rows) = 0
              THEN [ok |-> FALSE, error |-> IndexError, self |-> None]
              ELSE [ok |-> TRUE, error |-> NoError,
                    self |-> [cls |-> "PriceSeries", symbol |-> symbol,
                              data |-> std, source |-> source,
                              asset_type |-> asset_type,
                              stats |-> calculate_basic_stats(data)]] :
          df \in validate_data(data)}

\* __post_init__: every outcome of constructing PriceSeries(symbol, data, source,
\* asset_type): the object, or the exception that leaves no object behind
post_init(symbol, data, source, asset_type) ==
    IF ~HasRequired(data) THEN {[ok |-> FALSE, error |-> MissingColumns, self |-> None]}
    ELSE {LET std == standardize_columns(df)
          IN  IF Len(df.rows) = 0
              THEN [ok |-> FALSE, error |-> IndexError, self |-> None]
              ELSE [ok |-> TRUE, error |-> NoError,
                    self |-> [cls |-> "PriceSeries", symbol |-> symbol,
                              data |-> std, source |-> source,
                              asset_type |-> asset_type,
                              stats |-> calculate_basic_stats(std)]] :
          df \in validate_data(data)}

(***************************************************************************)
(* Portfolio (src/src/models/portfolio.py).  A dict of holdings is the     *)
(* sequence of its <<key, PriceSeries>> items in insertion order; a dict   *)
(* of weights is a function from its keys to rationals.                    *)
(***************************************************************************)
Keys(d) == {d[i][1] : i \in 1..Len(d)}

ZeroDivisionError == [type |-> "ZeroDivisionError", names |-> <<>>]

\* raise ValueError("Los símbolos en holdings y weights deben coincidir")
WeightMismatch == [type |-> "ValueError", names |-> <<"holdings", "weights">>]

AbsR(x) == IF IsNaN(x) THEN NaN ELSE <<Abs(x[1]), x[2]>>

\* a closeness test with a tolerance of a whole unit: |a - b| <= 1
isclose_wide(a, b) == Leq(AbsR(Sub(a, b)), One)

\* np.isclose(a, b): |a - b| <= atol + rtol * |b| with numpy's defaults
\* atol = 1e-8 and rtol = 1e-5, i.e. n/d <= (q + 1000 |p|) / (10^8 q) for
\* |a - b| = n/d and b = p/q, decided in integers
isclose(a, b) ==
    LET diff == AbsR(Sub(a, b))
    IN  /\ ~IsNaN(diff)
        /\ diff[1] <= ((b[2] + 1000 * Abs(b[1])) * diff[2]) \div (100000000 * b[2])

\* sum(self.weights.values())
total_of(weights) == SumOver(weights, DOMAIN weights)

\* every weight divided by the number of weights instead of their total
normalize_by_count(weights, total_weight) ==
    [k \in DOMAIN weights |-> Div(weights[k], <<Cardinality(DOMAIN weights), 1>>)]

\* {k: v/total_weight for k, v in self.weights.items()}, for a total that is
\* not zero (a zero total raises ZeroDivisionError at the first item)
normalize(weights, total_weight) ==
    [k \in DOMAIN weights |-> Div(weights[k], total_weight)]

\* Portfolio.__post_init__: the object or the exception, and whether the
\* warning "Pesos no suman 1.0" was printed
portfolio_post_init(hold, weights, name) ==
    LET total_weight == total_of(weights)
        rescale == ~isclose(total_weight, One)
        new_weights == IF rescale THEN normalize(weights, total_weight) ELSE weights
    IN  IF rescale /\ total_weight = Zero /\ DOMAIN weights # {}
        THEN [ok |-> FALSE, error |-> ZeroDivisionError, self |-> None, warned |-> TRUE]
        ELSE IF Keys(hold) # DOMAIN weights
        THEN [ok |-> FALSE, error |-> WeightMismatch, self |-> None, warned |-> rescale]
        ELSE [ok |-> TRUE, error |-> NoError, warned |-> rescale,
              self |-> [cls |-> "Portfolio", holdings |-> hold,
                        weights |-> new_weights, name |-> name]]

\* Series.reindex(index): the values under the labels of index, NaN where the
\* series has none
reindex(s, index) == Series([k \in index |-> IF k \in DOMAIN s THEN s[k] ELSE NaN])

\* the loop of get_portfolio_returns over the first n holdings: the index of
\* all_returns and its columns.  An empty frame takes the index of the first
\* non-empty Series assigned to it; every later Series is reindexed to it.
RECURSIVE all_returns(_, _)
all_returns(hold, n) ==
    IF n = 0 THEN [index |-> {}, columns |-> <<>>]
    ELSE LET before == all_returns(hold, n - 1)
             returns == get_returns(hold[n][2])
             index == IF before.index = {} THEN DOMAIN returns ELSE before.index
         IN  [index |-> index,
              columns |-> [i \in 1..n |->
                             IF i = n THEN reindex(returns, index)
                             ELSE reindex(before.columns[i], index)]]

\* DataFrame.dropna(): the labels at which no column is NaN
dropna_rows(frame) ==
    {k \in frame.index : \A i \in 1..Len(frame.columns) : ~IsNaN(frame.columns[i][k])}

\* get_portfolio_returns(): sum(...) over no holdings is the int 0; otherwise
\* 0 + the weighted columns, a Series under the labels that dropna() left
get_portfolio_returns(self) ==
    LET hold == self.holdings
        frame == all_returns(hold, Len(hold))
        kept == dropna_rows(frame)
        weighted == [i \in 1..Len(hold) |->
                        Series([k \in kept |->
                            Mul(frame.columns[i][k], self.weights[hold[i][1]])])]
    IN  IF Len(hold) = 0 THEN [type |-> "int", value |-> <<>>]
        ELSE [type |-> "Series",
              value |-> Series([k \in kept |->
                          SumOver([i \in 1..Len(hold) |-> weighted[i][k]], 1..Len(hold))])]

\* 'int' object has no attribute 'mean'
AttributeError == [type |-> "AttributeError", names |-> <<"mean">>]

\* float results of a division by a standard deviation of 0.0: 0.0 / 0.0 is
\* nan and x / 0.0 is inf with the sign of x (numpy warns and goes on)
SharpeNaN == [tag |-> "nan", mean |-> NaN, var |-> NaN, days |-> TradingDays]

SharpeInf(m) == [tag |-> "inf", mean |-> m, var |-> Zero, days |-> TradingDays]

\* portfolio_returns.mean() / portfolio_returns.std() * np.sqrt(252), with no
\* condition on the standard deviation
unguarded_sharpe(m, v) ==
    IF IsNaN(m) \/ IsNaN(v) THEN SharpeNaN
    ELSE IF v = Zero THEN (IF m = Zero THEN SharpeNaN ELSE SharpeInf(m))
    ELSE SharpeRatio(m, v)

\* Portfolio.get_stats(): the dict, or the exception of calling .mean() on the
\* int that get_portfolio_returns() gives for no holdings.  std_return and
\* annualized_volatility hold the squares of the code's values.
portfolio_get_stats(self) ==
    LET portfolio_returns == get_portfolio_returns(self)
        m == mean(portfolio_returns.value)
        v == var(portfolio_returns.value)
    IN  IF portfolio_returns.type = "int"
        THEN [ok |-> FALSE, error |-> AttributeError, value |-> None]
        ELSE [ok |-> TRUE, error |-> NoError,
              value |-> [mean_return |-> m,
                         std_return |-> v,
                         sharpe_ratio |-> unguarded_sharpe(m, v),
                         annualized_return |-> Mul(m, <<TradingDays, 1>>),
                         annualized_volatility |-> Mul(v, <<TradingDays, 1>>)]]

\* the values np.random.normal(loc, scale) is let to draw: nan when loc or
\* scale is nan, loc itself when scale is 0, and otherwise a loss of a half
\* and a gain of the whole, standing for the reals
normal(loc, scale) ==
    IF IsNaN(loc) \/ IsNaN(scale) THEN {NaN}
    ELSE IF scale = Zero THEN {loc}
    ELSE {<<-1, 2>>, <<1, 1>>}

\* the running sum of an array, in place of its running product
np_cumsum(a) == [j \in 1..Len(a) |-> SumOver(a, 1..j)]

\* ndarray.cumprod(): the running product; a nan spoils all that follows
np_cumprod(a) == [j \in 1..Len(a) |-> ProdOver(a, 1..j)]

\* initial_investment * (1 + daily_returns).cumprod()
price_path(initial_investment, daily_returns) ==
    LET growth == np_cumprod([k \in 1..Len(daily_returns) |-> Add(One, daily_returns[k])])
    IN  [j \in 1..Len(daily_returns) |-> Mul(initial_investment, growth[j])]

\* Portfolio.monte_carlo_simulation(n_simulations, n_days, initial_investment):
\* every outcome, as the array of np.zeros((n_simulations, n_days)) with row i
\* overwritten by the path of the draws of row i (kept beside it), or the
\* exception of calling .mean() on the int that stands for no holdings
monte_carlo_simulation(self, n_simulations, n_days, initial_investment) ==
    LET portfolio_returns == get_portfolio_returns(self)
        mean_return == mean(portfolio_returns.value)
        std_return == var(portfolio_returns.value)
    IN  IF portfolio_returns.type = "int"
        THEN {[ok |-> FALSE, error |-> AttributeError, value |-> None, draws |-> <<>>]}
        ELSE {[ok |-> TRUE, error |-> NoError, draws |-> daily_returns,
               value |-> [shape |-> <<n_simulations, n_days>>,
                          rows |-> [i \in 1..n_simulations |->
                                      price_path(initial_investment, daily_returns[i])]]] :
                daily_returns \in [1..n_simulations ->
                                     [1..n_days -> normal(mean_return, std_return)]]}

(***************************************************************************)
(* DataCleaner (src/src/processors/cleaner.py).  A DataFrame under an      *)
(* index of its own (after set_index) is a record of the index labels, the *)
(* column names and the rows, all in row order.  The file has no import    *)
(* statements: np, pd and PriceSeries are read as numpy, pandas and the    *)
(* PriceSeries of src/src/models/price_series.py.                          *)
(***************************************************************************)
\* raise ValueError(f"Método desconocido: {method}")
UnknownMethod(method) == [type |-> "ValueError", names |-> <<method>>]

\* pandas: "Unalignable boolean Series provided as indexer (index of the
\* boolean Series and of the indexed object do not match)"
IndexingError == [type |-> "IndexingError", names |-> <<>>]

\* pandas: "cannot reindex on an axis with duplicate labels"
DuplicateLabels == [type |-> "ValueError", names |-> <<"duplicate labels">>]

\* the values of a Series in ascending order
RECURSIVE sorted_values(_, _)
sorted_values(s, K) ==
    IF K = {} THEN <<>>
    ELSE LET k == CHOOSE x \in K : \A y \in K : Leq(s[x], s[y])
         IN  <<s[k]>> \o sorted_values(s, K \ {k})

\* Series.quantile(q), linear interpolation between the two nearest ranks;
\* NaN for a series without values
quantile(s, q) ==
    LET K == NotNaLabels(s)
        v == sorted_values(s, K)
        m == Len(v)
        pos == Mul(<<m - 1, 1>>, q)
        lo == pos[1] \div pos[2]
        hi == IF lo + 1 < m THEN lo + 1 ELSE lo
        frac == Sub(pos, <<lo, 1>>)
    IN  IF m = 0 THEN NaN
        ELSE Add(v[lo + 1], Mul(frac, Sub(v[hi + 1], v[lo + 1])))

\* (returns >= Q1 - 1.5 * IQR) & (returns <= Q3 + 1.5 * IQR)
iqr_mask(returns) ==
    LET Q1 == quantile(returns, <<1, 4>>)
        Q3 == quantile(returns, <<3, 4>>)
        IQR == Sub(Q3, Q1)
        low == Sub(Q1, Mul(<<3, 2>>, IQR))
        high == Add(Q3, Mul(<<3, 2>>, IQR))
    IN  [k \in DOMAIN returns |-> Leq(low, returns[k]) /\ Leq(returns[k], high)]

\* np.abs((returns - returns.mean()) / returns.std()) < threshold, decided on
\* the squares: |r - m| / std < t iff std > 0, t > 0 and (r - m)^2 < t^2 var.
\* With std = 0 every quotient is 0/0 = NaN, and NaN < t is False.
zscore_mask(returns, threshold) ==
    LET m == mean(returns)
        v == var(returns)
    IN  [k \in DOMAIN returns |->
            /\ StdPositive(v)
            /\ Less(Zero, threshold)
            /\ Less(Mul(Sub(returns[k], m), Sub(returns[k], m)),
                    Mul(Mul(threshold, threshold), v))]

\* the rows of the first n positions whose label the mask lets through
RECURSIVE masked_rows(_, _, _)
masked_rows(rows, mask, n) ==
    IF n = 0 THEN <<>>
    ELSE IF mask[n - 1] THEN Append(masked_rows(rows, mask, n - 1), rows[n])
    ELSE masked_rows(rows, mask, n - 1)

\* df[mask].reset_index(drop=True) for a boolean Series mask: the mask is
\* aligned to the index of df, and a label of df that the mask lacks raises
\* IndexingError
getitem_bool(df, mask) ==
    IF \E k \in 0..(Len(df.rows) - 1) : k \notin DOMAIN mask
    THEN [ok |-> FALSE, error |-> IndexingError, df |-> df]
    ELSE [ok |-> TRUE, error |-> NoError,
          df |-> [df EXCEPT !.rows = masked_rows(df.rows, mask, Len(df.rows))]]

\* DataCleaner.remove_outliers(series, method, threshold): every outcome, as
\* the PriceSeries returned or the exception raised, with the argument as the
\* call leaves it
remove_outliers(series, method, threshold) ==
    LET returns == get_returns(series)
        mask == IF method = "iqr" THEN iqr_mask(returns)
                ELSE zscore_mask(returns, threshold)
        clean == getitem_bool(series.data, mask)
    IN  IF method \notin {"iqr", "zscore"}
        THEN {[ok |-> FALSE, error |-> UnknownMethod(method), self |-> None,
               series |-> series]}
        ELSE IF ~clean.ok
        THEN {[ok |-> FALSE, error |-> clean.error, self |-> None, series |-> series]}
        ELSE {[ok |-> r.ok, error |-> r.error, self |-> r.self, series |-> series] :
                r \in post_init(series.symbol, clean.df, series.source,
                                series.asset_type)}

\* the positions of the columns of df other than the one called name
OtherColumns(df, name) ==
    LET c == ColumnPos(df, name)
    IN  [j \in 1..(Len(df.columns) - 1) |-> IF j < c THEN j ELSE j + 1]

\* df.set_index(name, inplace=True): the same frame, and df itself has lost
\* the column to its index
set_index_inplace(df, name) ==
    LET c == ColumnPos(df, name)
        o == OtherColumns(df, name)
        moved == [columns |-> [j \in DOMAIN o |-> df.columns[o[j]]],
                  rows |-> [i \in 1..Len(df.rows) |-> [j \in DOMAIN o |-> df.rows[i][o[j]]]]]
    IN  [result |-> [index |-> [i \in 1..Len(df.rows) |-> df.rows[i][c]],
                     columns |-> moved.columns, rows |-> moved.rows],
         df |-> moved]

\* df.set_index(name): a new frame whose index is the column and whose columns
\* are the other ones; df itself stays as it is
set_index(df, name) ==
    LET c == ColumnPos(df, name)
        o == OtherColumns(df, name)
    IN  [result |-> [index |-> [i \in 1..Len(df.rows) |-> df.rows[i][c]],
                     columns |-> [j \in DOMAIN o |-> df.columns[o[j]]],
                     rows |-> [i \in 1..Len(df.rows) |->
                                 [j \in DOMAIN o |-> df.rows[i][o[j]]]]],
         df |-> df]

\* pd.date_range(start, end, freq='D'): every day from start to end
date_range(start, end) == [i \in 1..(end - start + 1) |-> start + i - 1]

\* Index.is_unique
is_unique(index) == \A i, j \in 1..Len(index) : index[i] = index[j] => i = j

\* DataFrame.reindex(target) of a frame with a unique index: the row of every
\* target label, all NaN where the frame has no such label
frame_reindex(frame, target) ==
    [index |-> target,
     columns |-> frame.columns,
     rows |-> [i \in 1..Len(target) |->
                 IF \E p \in 1..Len(frame.index) : frame.index[p] = target[i]
                 THEN frame.rows[CHOOSE p \in 1..Len(frame.index) :
                                    frame.index[p] = target[i]]
                 ELSE [j \in 1..Len(frame.columns) |-> NaN]]]

\* the column at position j of a frame, by row position
FrameColumn(frame, j) == Series([i \in 1..Len(frame.rows) |-> frame.rows[i][j]])

\* Series.interpolate(method='linear'): a NaN between two values lies on the
\* line through them by position; a NaN after the last value repeats it; a
\* NaN before the first value stays
interpolate(s) ==
    Series([k \in DOMAIN s |->
        LET before == {j \in NotNaLabels(s) : j < k}
            after == {j \in NotNaLabels(s) : j > k}
            a == CHOOSE j \in before : \A i \in before : i <= j
            b == CHOOSE j \in after : \A i \in after : j <= i
        IN  IF ~IsNaN(s[k]) THEN s[k]
            ELSE IF before = {} THEN NaN
            ELSE IF after = {} THEN s[a]
            ELSE Add(s[a], Mul(Sub(s[b], s[a]), Rat(k - a, b - a)))])

\* df.fillna(method='ffill') and df.interpolate(method='linear'): the frame
\* with every column filled on its own
FillColumns(frame, method) ==
    LET filled == [j \in 1..Len(frame.columns) |->
                     IF method = "ffill" THEN ffill(FrameColumn(frame, j))
                     ELSE interpolate(FrameColumn(frame, j))]
    IN  [frame EXCEPT !.rows = [i \in 1..Len(frame.rows) |->
                                   [j \in 1..Len(frame.columns) |-> filled[j][i]]]]

\* df.reset_index().rename(columns={'index': 'date'}): the unnamed index comes
\* back as the first column, called 'index' and renamed to 'date'
reset_index(frame) ==
    [columns |-> rename(<<"index">> \o frame.columns, ("index" :> "date")),
     rows |-> [i \in 1..Len(frame.rows) |-> <<frame.index[i]>> \o frame.rows[i]]]

\* Series.min() and Series.max() of a date column
date_min(s) == CHOOSE d \in {s[k] : k \in DOMAIN s} : \A k \in DOMAIN s : d <= s[k]

date_max(s) == CHOOSE d \in {s[k] : k \in DOMAIN s} : \A k \in DOMAIN s : s[k] <= d

\* DataCleaner.fill_missing_dates(series, method): every outcome, as the
\* PriceSeries returned or the exception raised, with the argument as the call
\* leaves it.  A method other than 'ffill' and 'interpolate' takes neither
\* branch and leaves the reindexed frame unfilled.
fill_missing_dates(series, method) ==
    LET dates == Column(series.data, "date")
        range == date_range(date_min(dates), date_max(dates))
        indexed == set_index(series.data, "date")
        after == [series EXCEPT !.data = indexed.df]
        reindexed == frame_reindex(indexed.result, range)
        df == IF method = "ffill" THEN FillColumns(reindexed, "ffill")
              ELSE IF method = "interpolate" THEN FillColumns(reindexed, "interpolate")
              ELSE reindexed
    IN  IF ~is_unique(indexed.result.index)
        THEN {[ok |-> FALSE, error |-> DuplicateLabels, self |-> None, series |-> after]}
        ELSE {[ok |-> r.ok, error |-> r.error, self |-> r.self, series |-> after] :
                r \in post_init(series.symbol, reset_index(df), series.source,
                                series.asset_type)}

(***************************************************************************)
(* AlphaVantageExtractor (src/src/extractors/alpha_extractor.py).  Time is *)
(* the value of time.time() in whole seconds; the clock never runs         *)
(* backwards and time.sleep(s) returns after s seconds or later.  An API   *)
(* call starts at the moment _rate_limit stamps last_call_time; the        *)
(* request leaves right after it.                                          *)
(***************************************************************************)
\* the seconds _rate_limit keeps between two calls (60 seconds / 5 calls)
MinInterval == 12

\* self.last_call_time: None, or the time of the last stamp
NoTime == [set |-> FALSE, t |-> 0]

Stamp(t) == [set |-> TRUE, t |-> t]

\* the truth value of last_call_time in 'if self.last_call_time:'
Truthy(x) == x.set /\ x.t # 0

\* raise ValueError("Se requiere un API key válido de Alpha Vantage ...")
InvalidApiKey == [type |-> "ValueError", names |-> <<"api_key">>]

\* AlphaVantageExtractor.__init__(api_key)
extractor_init(api_key) ==
    IF api_key = "" \/ api_key = "YOUR_API_KEY_HERE"
    THEN [ok |-> FALSE, error |-> InvalidApiKey, self |-> None]
    ELSE [ok |-> TRUE, error |-> NoError,
          self |-> [cls |-> "AlphaVantageExtractor", api_key |-> api_key,
                    call_count |-> 0, last_call_time |-> NoTime]]

\* _rate_limit that stamps and counts the call without ever waiting
rate_limit_no_wait(self, time, oversleep) ==
    [self |-> [self EXCEPT !.last_call_time = Stamp(time), !.call_count = @ + 1],
     time |-> time]

\* _rate_limit() entered at the given time, where the sleep, if there is one,
\* lasts oversleep seconds longer than asked: the extractor and the time at
\* which it returns
rate_limit(self, time, oversleep) ==
    LET elapsed == time - self.last_call_time.t
        sleep_time == MinInterval - elapsed
        woke == IF Truthy(self.last_call_time) /\ elapsed < MinInterval
                THEN time + sleep_time + oversleep
                ELSE time
    IN  [self |-> [self EXCEPT !.last_call_time = Stamp(woke), !.call_count = @ + 1],
         time |-> woke]

\* raise ValueError(...) of an API method for a response without the data
ApiError(symbol) == [type |-> "ValueError", names |-> <<symbol>>]

\* any of the API methods (get_historical_prices, get_intraday_prices,
\* get_quote, get_company_overview, search_symbol): self._rate_limit(), then
\* the request, answered after duration seconds with the response.  Gives the
\* extractor, the time the call started, the time it ended, and the data
\* returned or the exception raised.
api_call(self, time, method, symbol, oversleep, duration, response) ==
    LET limited == rate_limit(self, time, oversleep)
    IN  [self |-> limited.self,
         started |-> limited.time,
         time |-> limited.time + duration,
         request |-> [t |-> limited.time, symbol |-> symbol, response |-> response],
         ok |-> response = "ok",
         error |-> IF response = "ok" THEN NoError ELSE ApiError(symbol),
         value |-> IF response = "ok" THEN [data |-> method, symbol |-> symbol]
                   ELSE None]

\* the loop abandoned at the first symbol that fails
RECURSIVE download_until_failure(_, _, _, _, _, _, _)
download_until_failure(self, time, symbols, n, oversleep, duration, response) ==
    IF n = 0 THEN [self |-> self, time |-> time, requests |-> <<>>, results |-> <<>>]
    ELSE LET before == download_until_failure(self, time, symbols, n - 1, oversleep,
                                              duration, response)
             r == api_call(before.self, before.time, "get_historical_prices",
                           symbols[n], oversleep[n], duration[n], response[n])
         IN  IF \E i \in 1..Len(before.requests) : before.requests[i].response # "ok"
             THEN before
             ELSE [self |-> r.self,
                   time |-> r.time,
                   requests |-> Append(before.requests, r.request),
                   results |-> IF r.ok THEN Append(before.results, <<symbols[n], r.value>>)
                               ELSE before.results]

\* the loop of get_multiple_symbols over the first n symbols: each symbol is
\* tried with get_historical_prices, an Exception is caught and printed, a
\* DataFrame is stored under the symbol.  oversleep, duration and response
\* give the course of the n calls.
RECURSIVE download_loop(_, _, _, _, _, _, _)
download_loop(self, time, symbols, n, oversleep, duration, response) ==
    IF n = 0 THEN [self |-> self, time |-> time, requests |-> <<>>, results |-> <<>>]
    ELSE LET before == download_loop(self, time, symbols, n - 1, oversleep,
                                     duration, response)
             r == api_call(before.self, before.time, "get_historical_prices",
                           symbols[n], oversleep[n], duration[n], response[n])
         IN  [self |-> r.self,
              time |-> r.time,
              requests |-> Append(before.requests, r.request),
              results |-> IF ~r.ok THEN before.results
                          ELSE IF \E i \in 1..Len(before.results) :
                                     before.results[i][1] = symbols[n]
                          THEN [i \in 1..Len(before.results) |->
                                  IF before.results[i][1] = symbols[n]
                                  THEN <<symbols[n], r.value>>
                                  ELSE before.results[i]]
                          ELSE Append(before.results, <<symbols[n], r.value>>)]

\* AlphaVantageExtractor.get_multiple_symbols(symbols, start_date, end_date);
\* the results dict is the sequence of its items in insertion order
get_multiple_symbols(self, time, symbols, oversleep, duration, response) ==
    download_loop(self, time, symbols, Len(symbols), oversleep, duration, response)

(***************************************************************************)
(* Input tables.  An observation is a <<date, close>> pair; a table gives  *)
(* the observations under one of the headers below, in any order and with  *)
(* any repetition of dates.                                                *)
(***************************************************************************)
Symbols == {"AAPL", "MSFT"}

Headers ==
    {<<"date", "close">>, <<"date", "close", "Volume", "Foo">>,
     <<"Date", "Close">>, <<"date", "CLOSE">>, <<"date">>, <<"close">>}

Observations(maxLen, closes) ==
    UNION {[1..m -> (1..MaxDate) \X closes] : m \in 0..maxLen}

\* the cell of an observation under a column: its date, its close, and under
\* any other column a number of its own
Cell(name, obs) ==
    IF lower(name) = "date" THEN obs[1]
    ELSE IF lower(name) = "close" THEN <<obs[2], 1>>
    ELSE IF lower(name) = "volume" THEN <<10 * obs[1] + obs[2], 1>>
    ELSE <<100 + obs[2], 1>>

MakeTable(header, obs) ==
    [columns |-> header,
     rows |-> [i \in 1..Len(obs) |-> [j \in 1..Len(header) |-> Cell(header[j], obs[i])]]]

Tables == {MakeTable(h, obs) : h \in Headers, obs \in Observations(MaxLen, 1..MaxClose)}

\* the tables of the holdings: the canonical header, at most one observation
\* for each date, in date order, the closes at two price levels
HoldingCloses == {1, 2}

HoldingTables ==
    {MakeTable(<<"date", "close">>, obs) :
        obs \in {o \in Observations(MaxDate, HoldingCloses) :
                    \A i \in 1..(Len(o) - 1) : o[i][1] < o[i + 1][1]}}

\* the tables of the series that are cleaned: a volume column beside date and
\* close, the observations in any order and with any repetition of dates
CleanerTables ==
    {MakeTable(<<"date", "close", "Volume">>, obs) :
        obs \in Observations(MaxLen, HoldingCloses)}

\* weight dicts: any keys, the weights in halves
WeightDicts == UNION {[K -> {Rat(w, 2) : w \in 0..MaxWeight}] : K \in SUBSET Symbols}

\* the method names a caller passes to the DataCleaner: the supported ones and
\* one that neither operation knows
OutlierMethods == {"iqr", "zscore", "mad"}

FillMethods == {"ffill", "interpolate", "bfill"}

\* thresholds of the z-score filter: the default 3.0 and a tighter one
Thresholds == {<<3, 1>>, <<1, 1>>}

\* the arguments of a simulation
Investments == {<<100, 1>>, <<10000, 1>>}

\* the holdings of the portfolios that are simulated: none, or one symbol
SimulatedHoldings ==
    {<<>>} \cup
    {<<<<"AAPL", r.self>>>> :
        r \in {x \in UNION {post_init("AAPL", data, "yahoo", "stock") :
                              data \in HoldingTables} : x.ok}}

\* the arguments and the surroundings of the extractor: API keys, the methods
\* that call the API, what the server answers, how long an answer takes, how
\* long a caller pauses, and by how much a sleep overruns
ApiKeys == {"", "YOUR_API_KEY_HERE", "KEY"}

ApiMethods == {"get_historical_prices", "get_intraday_prices", "get_quote",
               "get_company_overview", "search_symbol"}

Responses == {"ok", "Error Message"}

Durations == {0, 2}

WaitTimes == {12}

Oversleeps == {0, 1}

\* the lists of symbols asked of get_multiple_symbols, repetitions included
SymbolLists == UNION {[1..n -> Symbols] : n \in 0..MaxSymbols}

(***************************************************************************)
(* State.                                                                  *)
(*   ps         the PriceSeries a caller constructs and queries, or None   *)
(*   holdings   the dict of PriceSeries a caller builds for a Portfolio    *)
(*   portfolio  the Portfolio constructed from it, or None                 *)
(*   call       the constructor or simulation call under study, with its   *)
(*              arguments                                                  *)
(*   out        what the last query returned; for a DataCleaner call the   *)
(*              series returned and the argument as it was before the call *)
(*   err        the exception that ended the program, or NoError           *)
(*   extractor  the AlphaVantageExtractor of the program, or None          *)
(*   now        the time, as time.time() gives it, in seconds              *)
(*   log        the API calls started so far: time, method, symbol and the *)
(*              response of the server                                     *)
(***************************************************************************)
NoCall == [op |-> "none"]

NoOut == [op |-> "none"]

\* the time at which the program starts
StartTime == 1

\* no extractor, the clock at the start, nothing sent
NoExtractor ==
    /\ extractor = None
    /\ now = StartTime
    /\ log = <<>>

Init ==
    /\ ps = None
    /\ holdings = <<>>
    /\ portfolio = None
    /\ out = NoOut
    /\ err = NoError
    /\ call = NoCall
    /\ NoExtractor

\* ps = PriceSeries(symbol=..., data=..., source='yahoo', asset_type='stock')
\* for a table out of tables
Construct(tables) ==
    /\ err = NoError
    /\ ps = None
    /\ \E symbol \in {"AAPL"}, data \in tables :
         \E r \in post_init(symbol, data, "yahoo", "stock") :
            /\ ps' = r.self
            /\ err' = r.error
            /\ call' = [op |-> "PriceSeries", symbol |-> symbol, data |-> data]
    /\ out' = NoOut
    /\ UNCHANGED <<holdings, portfolio>>
    /\ UNCHANGED <<extractor, now, log>>

NewPriceSeries == Construct(Tables)

\* ps.get_returns()
GetReturns ==
    /\ err = NoError
    /\ ps # None
    /\ out' = [op |-> "get_returns", value |-> get_returns(ps)]
    /\ UNCHANGED <<ps, holdings, portfolio, err, call>>
    /\ UNCHANGED <<extractor, now, log>>

\* ps.get_stats()
GetStats ==
    /\ err = NoError
    /\ ps # None
    /\ out' = [op |-> "get_stats", value |-> ps.stats]
    /\ UNCHANGED <<ps, holdings, portfolio, err, call>>
    /\ UNCHANGED <<extractor, now, log>>

Next == NewPriceSeries \/ GetReturns \/ GetStats

Spec == Init /\ [][Next]_vars

\* holdings[symbol] = PriceSeries(symbol=symbol, data=df, source='yahoo',
\*                                 asset_type='stock')
AddHolding ==
    /\ err = NoError
    /\ portfolio = None
    /\ \E symbol \in Symbols \ Keys(holdings), data \in HoldingTables :
         \E r \in post_init(symbol, data, "yahoo", "stock") :
            /\ holdings' = IF r.ok THEN Append(holdings, <<symbol, r.self>>) ELSE holdings
            /\ err' = r.error
    /\ UNCHANGED <<ps, portfolio, out, call>>
    /\ UNCHANGED <<extractor, now, log>>

\* portfolio = Portfolio(holdings=holdings, weights=weights, name="Tech Portfolio")
NewPortfolio ==
    /\ err = NoError
    /\ portfolio = None
    /\ \E weights \in WeightDicts :
         LET r == portfolio_post_init(holdings, weights, "Tech Portfolio")
         IN  /\ portfolio' = r.self
             /\ err' = r.error
             /\ out' = [op |-> "Portfolio", warned |-> r.warned]
             /\ call' = [op |-> "Portfolio", holdings |-> holdings, weights |-> weights]
    /\ UNCHANGED <<ps, holdings>>
    /\ UNCHANGED <<extractor, now, log>>

\* portfolio.get_portfolio_returns()
GetPortfolioReturns ==
    /\ err = NoError
    /\ portfolio # None
    /\ out' = [op |-> "get_portfolio_returns", value |-> get_portfolio_returns(portfolio)]
    /\ UNCHANGED <<ps, holdings, portfolio, err, call>>
    /\ UNCHANGED <<extractor, now, log>>

\* portfolio.get_stats()
GetPortfolioStats ==
    /\ err = NoError
    /\ portfolio # None
    /\ LET r == portfolio_get_stats(portfolio)
       IN  /\ out' = [op |-> "portfolio_get_stats", value |-> r.value]
           /\ err' = r.error
    /\ UNCHANGED <<ps, holdings, portfolio, call>>
    /\ UNCHANGED <<extractor, now, log>>

PortfolioNext == AddHolding \/ NewPortfolio \/ GetPortfolioReturns

PortfolioSpec == Init /\ [][PortfolioNext]_vars

\* a program that has built a portfolio of the one holding with weight 1.0, or
\* of none
MonteCarloInit ==
    /\ ps = None
    /\ out = NoOut
    /\ err = NoError
    /\ call = NoCall
    /\ NoExtractor
    /\ \E hold \in SimulatedHoldings :
         /\ holdings = hold
         /\ portfolio = portfolio_post_init(hold, [k \in Keys(hold) |-> One],
                                            "Tech Portfolio").self

\* portfolio.monte_carlo_simulation(n_simulations, n_days, initial_investment),
\* run once by the program (src/examples/ejemplo_simple.py, line 31)
MonteCarlo ==
    /\ err = NoError
    /\ portfolio # None
    /\ call = NoCall
    /\ \E n_simulations \in 0..MaxSims, n_days \in 0..MaxDays,
          initial_investment \in Investments :
         \E r \in monte_carlo_simulation(portfolio, n_simulations, n_days,
                                         initial_investment) :
            /\ out' = [op |-> "monte_carlo_simulation", value |-> r.value,
                       draws |-> r.draws]
            /\ err' = r.error
            /\ call' = [op |-> "monte_carlo_simulation", n_simulations |-> n_simulations,
                        n_days |-> n_days, initial_investment |-> initial_investment]
    /\ UNCHANGED <<ps, holdings, portfolio>>
    /\ UNCHANGED <<extractor, now, log>>

MonteCarloNext == MonteCarlo \/ GetPortfolioStats

MonteCarloSpec == MonteCarloInit /\ [][MonteCarloNext]_vars

\* out = DataCleaner.remove_outliers(ps, method=method, threshold=threshold)
RemoveOutliers ==
    /\ err = NoError
    /\ ps # None
    /\ \E method \in OutlierMethods, threshold \in Thresholds :
         \E r \in remove_outliers(ps, method, threshold) :
            /\ ps' = r.series
            /\ err' = r.error
            /\ out' = [op |-> "remove_outliers", method |-> method,
                       before |-> ps, result |-> r.self]
    /\ UNCHANGED <<holdings, portfolio, call>>
    /\ UNCHANGED <<extractor, now, log>>

\* out = DataCleaner.fill_missing_dates(ps, method=method)
FillMissingDates ==
    /\ err = NoError
    /\ ps # None
    /\ \E method \in FillMethods :
         \E r \in fill_missing_dates(ps, method) :
            /\ ps' = r.series
            /\ err' = r.error
            /\ out' = [op |-> "fill_missing_dates", method |-> method,
                       before |-> ps, result |-> r.self]
    /\ UNCHANGED <<holdings, portfolio, call>>
    /\ UNCHANGED <<extractor, now, log>>

\* the series handed to the DataCleaner
NewCleanerInput == Construct(CleanerTables)

CleanerNext == NewCleanerInput \/ RemoveOutliers \/ FillMissingDates \/ GetStats

CleanerSpec == Init /\ [][CleanerNext]_vars

\* extractor = AlphaVantageExtractor(api_key=api_key)
NewExtractor ==
    /\ err = NoError
    /\ extractor = None
    /\ \E api_key \in ApiKeys :
         LET r == extractor_init(api_key)
         IN  /\ extractor' = r.self
             /\ err' = r.error
    /\ UNCHANGED <<ps, holdings, portfolio, out, call, now, log>>

\* the program does something else for a while
Wait ==
    /\ err = NoError
    /\ extractor # None
    /\ \E d \in WaitTimes :
         /\ now + d <= MaxTime
         /\ now' = now + d
    /\ UNCHANGED <<ps, holdings, portfolio, out, err, call, extractor, log>>

\* extractor.get_historical_prices(symbol, ...), extractor.get_quote(symbol)
\* and the other API methods; an exception is not caught
ApiCall ==
    /\ err = NoError
    /\ extractor # None
    /\ extractor.call_count < MaxCalls
    /\ \E method \in ApiMethods, oversleep \in Oversleeps, duration \in Durations,
          response \in Responses :
         LET r == api_call(extractor, now, method, "AAPL", oversleep, duration, response)
         IN  /\ extractor' = r.self
             /\ now' = r.time
             /\ log' = Append(log, r.request)
             /\ out' = [op |-> "api_call", value |-> r.value]
             /\ err' = r.error
    /\ UNCHANGED <<ps, holdings, portfolio, call>>

ExtractorNext == NewExtractor \/ Wait \/ ApiCall

ExtractorSpec == Init /\ [][ExtractorNext]_vars

\* out = extractor.get_multiple_symbols(symbols, start_date, end_date), called
\* once by the program
GetMultipleSymbols ==
    /\ err = NoError
    /\ extractor # None
    /\ call = NoCall
    /\ \E symbols \in SymbolLists :
         \E oversleep \in [1..Len(symbols) -> Oversleeps],
            duration \in [1..Len(symbols) -> Durations],
            response \in [1..Len(symbols) -> Responses] :
            LET r == get_multiple_symbols(extractor, now, symbols, oversleep,
                                          duration, response)
            IN  /\ extractor' = r.self
                /\ now' = r.time
                /\ log' = log \o r.requests
                /\ out' = [op |-> "get_multiple_symbols", value |-> r.results]
                /\ call' = [op |-> "get_multiple_symbols", symbols |-> symbols,
                            before |-> Len(log)]
    /\ UNCHANGED <<ps, holdings, portfolio, err>>

DownloadNext == NewExtractor \/ Wait \/ GetMultipleSymbols

DownloadSpec == Init /\ [][DownloadNext]_vars

(***************************************************************************)
(* Properties of PriceSeries, checked under Spec.                          *)
(***************************************************************************)
Constructed == ps # None

Rows == ps.data.rows

DateAt(i) == Column(ps.data, "date")[i - 1]

\* the close of the i-th observation; the closes of the tables are whole
\* numbers c, held as <<c, 1>>
CloseAt(i) == Column(ps.data, "close")[i - 1]

\* the canonical names the columns of a table stand for
CanonicalNames(df) ==
    {lower(rename(df.columns, column_mapping)[j]) : j \in 1..Len(df.columns)}

\* the required columns that a table lacks under their own names
Absent(df) == {required[i] : i \in {j \in 1..Len(required) : ~HasColumn(df, required[j])}}

Named(e) == {e.names[i] : i \in 1..Len(e.names)}

\* C5: the observations of every constructed PriceSeries are strictly
\* ascending by date: sorted, and no two observations share a date.
C5_StrictlyAscendingDates ==
    Constructed => \A i, j \in 1..Len(Rows) : i < j => DateAt(i) < DateAt(j)

\* C6: for a constructed PriceSeries with n observations get_returns() has
\* exactly the labels 1..n-1 (length n-1, nothing for observation 0) and its
\* entry i equals close[i]/close[i-1] - 1.
C6_ReturnsFormula ==
    out.op = "get_returns" =>
        LET n == Len(Rows)
            r == out.value
        IN  /\ DOMAIN r = 1..(n - 1)
            /\ \A i \in 1..(n - 1) :
                 /\ r[i][2] > 0
                 /\ r[i][1] * CloseAt(i)[1] = (CloseAt(i + 1)[1] - CloseAt(i)[1]) * r[i][2]

\* C6 witness: get_returns() was called on a series of three observations
\* whose two returns are different and not zero
C6_Witness ==
    /\ out.op = "get_returns"
    /\ Len(Rows) = 3
    /\ out.value[1] # out.value[2]
    /\ out.value[1] # Zero
    /\ out.value[2] # Zero

\* C7: the max_drawdown of every constructed PriceSeries, one with a single
\* observation included, is a defined value (not NaN) that is <= 0.
C7_MaxDrawdownDefinedNonPositive ==
    Constructed => Leq(ps.stats.max_drawdown, Zero)

\* C8: max_drawdown is 0 only for a non-decreasing close series: whenever some
\* close is lower than an earlier close, max_drawdown < 0.  (Stated for the
\* series whose dates are strictly ascending, where the order of the closes
\* is beyond doubt.)
C8_ZeroOnlyWhenNonDecreasing ==
    (Constructed /\ \A i, j \in 1..Len(Rows) : i < j => DateAt(i) < DateAt(j)) =>
        ((\E i, j \in 1..Len(Rows) : i < j /\ CloseAt(j)[1] < CloseAt(i)[1])
            => Less(ps.stats.max_drawdown, Zero))

\* C9: a table (with at least one row) whose date and close columns come
\* under any case or alias is accepted: its construction does not fail with
\* MissingColumns.
C9_AliasesAccepted ==
    (/\ call.op = "PriceSeries"
     /\ Len(call.data.rows) > 0
     /\ {"date", "close"} \subseteq CanonicalNames(call.data))
        => err.type # "ValueError"

\* C10 as stated: construction fails with MissingColumns exactly when 'date' or
\* 'close' is absent from the input, the error names the absent ones, and no
\* series has been built.
C10_ErrorNamesAbsentColumns ==
    call.op = "PriceSeries" =>
        /\ err.type = "ValueError" <=> Absent(call.data) # {}
        /\ err.type = "ValueError" => (Named(err) = Absent(call.data) /\ ps = None)

\* C10 as amended: construction fails with MissingColumns exactly when a
\* column named 'date' or 'close' is absent from the input as supplied; the
\* error lists both required names whichever is absent; no series and no
\* statistic has been built.
C10_MissingColumnsExactly ==
    call.op = "PriceSeries" =>
        /\ err.type = "ValueError" <=> Absent(call.data) # {}
        /\ err.type = "ValueError" =>
             (err.names = <<"date", "close">> /\ ps = None /\ out = NoOut)

\* C10 witness: construction failed for a table that has 'date' and lacks
\* only 'close'
C10_Witness ==
    /\ call.op = "PriceSeries"
    /\ err.type = "ValueError"
    /\ Absent(call.data) = {"close"}

\* the columns of the input tables that are no alias of a canonical column,
\* with their names in lower case
UnrecognisedLower == ("Foo" :> "foo")

Count(seq, v) == Cardinality({i \in 1..Len(seq) : seq[i] = v})

\* the rows of the constructed series are the rows supplied, each as often
RowsKept == \A i \in 1..Len(call.data.rows) :
                Count(Rows, call.data.rows[i]) = Count(call.data.rows, call.data.rows[i])

\* C11 as stated: canonicalization renames only the recognized columns; every
\* unrecognized column of the input keeps its name and its values exactly as
\* supplied.
C11_UnrecognisedUntouched ==
    (call.op = "PriceSeries" /\ Constructed) =>
        /\ Len(ps.data.columns) = Len(call.data.columns)
        /\ RowsKept
        /\ \A j \in 1..Len(call.data.columns) :
             call.data.columns[j] \in DOMAIN UnrecognisedLower
                => ps.data.columns[j] = call.data.columns[j]

\* C11 as amended: canonicalization renames the recognized columns and puts
\* the name of every column in lower case, the unrecognized ones included
\* ('Foo' becomes 'foo'); every column keeps its place and every row its
\* values.
C11_UnrecognisedLowerCased ==
    (call.op = "PriceSeries" /\ Constructed) =>
        /\ Len(ps.data.columns) = Len(call.data.columns)
        /\ RowsKept
        /\ \A j \in 1..Len(call.data.columns) :
             call.data.columns[j] \in DOMAIN UnrecognisedLower
                => ps.data.columns[j] = UnrecognisedLower[call.data.columns[j]]

\* C11 witness: a series was constructed from three rows that carry the
\* unrecognized column 'Foo' with different values
C11_Witness ==
    /\ call.op = "PriceSeries"
    /\ Constructed
    /\ Len(Rows) = 3
    /\ \E j \in 1..Len(call.data.columns) :
         /\ call.data.columns[j] = "Foo"
         /\ Rows[1][j] # Rows[2][j]

\* C16: the sharpe_ratio of every constructed PriceSeries is
\* mean_return / std_return * sqrt(252) when std_return is positive and the
\* plain 0 when std_return is 0 or undefined; no construction ends in a
\* division error.
C16_SharpeGuarded ==
    /\ err.type # "ZeroDivisionError"
    /\ Constructed =>
         LET stats == ps.stats
             positive == stats.std_return[2] > 0 /\ stats.std_return[1] > 0
         IN  IF positive
             THEN /\ stats.sharpe_ratio.tag = "ratio"
                  /\ stats.sharpe_ratio.mean = stats.mean_return
                  /\ stats.sharpe_ratio.var = stats.std_return
                  /\ stats.sharpe_ratio.days = 252
             ELSE /\ stats.sharpe_ratio.tag = "zero"
                  /\ stats.sharpe_ratio.days = 0

\* C16 witness: a series of three observations was constructed whose two
\* returns are equal, so that std_return is exactly 0
C16_Witness ==
    /\ Constructed
    /\ Len(Rows) = 3
    /\ ps.stats.std_return = Zero
    /\ ps.stats.sharpe_ratio.tag = "zero"

(***************************************************************************)
(* Properties of DataCleaner, checked under CleanerSpec.                   *)
(***************************************************************************)
Cleaned(op) == out.op = op

\* the rows of the series a cleaning call returned
ResultRows == out.result.data.rows

\* C12: remove_outliers with method 'iqr' on any constructed PriceSeries
\* returns a series whose observations are a subset of those of the input and
\* include the first observation of the input.
C12_IqrKeepsAnchorAndSubset ==
    (Cleaned("remove_outliers") /\ out.method = "iqr") =>
        /\ out.result # None
        /\ \A i \in 1..Len(ResultRows) : \E j \in 1..Len(Rows) : ResultRows[i] = Rows[j]
        /\ \E i \in 1..Len(ResultRows) : ResultRows[i] = Rows[1]

\* C13: a method name outside the supported set makes remove_outliers and
\* fill_missing_dates alike fail with the unknown-method error, and no series
\* is returned.
C13_UnknownMethodFails ==
    /\ (Cleaned("remove_outliers") /\ out.method \notin {"iqr", "zscore"})
          => (err = UnknownMethod(out.method) /\ out.result = None)
    /\ (Cleaned("fill_missing_dates") /\ out.method \notin {"ffill", "interpolate"})
          => (err = UnknownMethod(out.method) /\ out.result = None)

\* C14: fill_missing_dates with a supported method returns a series with
\* exactly one observation for every day from the first to the last date of
\* the input, in ascending order.
C14_OneRowPerDay ==
    (Cleaned("fill_missing_dates") /\ out.method \in {"ffill", "interpolate"}) =>
        /\ out.result # None
        /\ LET first == DateAt(1)
               last == DateAt(Len(Rows))
           IN  /\ Len(ResultRows) = last - first + 1
               /\ \A i \in 1..Len(ResultRows) :
                    Column(out.result.data, "date")[i - 1] = first + i - 1

\* C19: remove_outliers and fill_missing_dates return a new PriceSeries, if
\* they return, and leave the series passed to them as it was before the
\* call: the same table, symbol, source, asset_type and cached statistics,
\* whether the call returned or raised.
C19_InputUnchanged ==
    (Cleaned("remove_outliers") \/ Cleaned("fill_missing_dates")) =>
        /\ ps.data = out.before.data
        /\ ps.symbol = out.before.symbol
        /\ ps.source = out.before.source
        /\ ps.asset_type = out.before.asset_type
        /\ ps.stats = out.before.stats
        /\ out.result # None => out.result.cls = "PriceSeries"
        /\ (err = NoError) <=> (out.result # None)

\* C19 witness: fill_missing_dates returned a series with more rows than the
\* series passed to it, which has a gap in its dates
C19_Witness ==
    /\ Cleaned("fill_missing_dates")
    /\ out.method = "ffill"
    /\ out.result # None
    /\ Len(ResultRows) > Len(Rows)

\* the cached statistics of a series are those of the observations it holds
Fresh(series) ==
    LET returns == get_returns(series)
        close == Column(series.data, "close")
        stats == series.stats
    IN  /\ stats.mean_return = mean(returns)
        /\ stats.std_return = var(returns)
        /\ stats.volatility = Mul(var(returns), <<252, 1>>)
        /\ stats.total_return = Sub(Div(close[Len(series.data.rows) - 1], close[0]), One)
        /\ stats.max_drawdown = calculate_max_drawdown(series.data)
        /\ stats.sharpe_ratio.tag = "ratio" =>
             (stats.sharpe_ratio.mean = mean(returns) /\ stats.sharpe_ratio.var = var(returns))
        /\ stats.sharpe_ratio.tag = "ratio" <=> Less(Zero, var(returns))

InputDates == {Rows[i][1] : i \in 1..Len(Rows)}

\* the values (all but the date) of a row
Values(row) == SubSeq(row, 2, Len(row))

\* C22: the series fill_missing_dates returns for method 'ffill' holds every
\* input observation unchanged on its own date; every inserted day carries
\* the values of the latest input observation before it, so that its close is
\* the close of the day before; the first and the last close are those of the
\* input.
C22_ForwardFilled ==
    (Cleaned("fill_missing_dates") /\ out.method = "ffill" /\ out.result # None) =>
        LET close == Column(out.result.data, "close")
            n == Len(ResultRows)
        IN  /\ \A i \in 1..Len(Rows) : \E j \in 1..n : ResultRows[j] = Rows[i]
            /\ \A j \in 1..n :
                 ResultRows[j][1] \notin InputDates =>
                    /\ \E i \in 1..Len(Rows) :
                         /\ Rows[i][1] < ResultRows[j][1]
                         /\ \A k \in 1..Len(Rows) :
                              Rows[k][1] < ResultRows[j][1] => Rows[k][1] <= Rows[i][1]
                         /\ Values(ResultRows[j]) = Values(Rows[i])
                    /\ j > 1
                    /\ close[j - 1] = close[j - 2]
            /\ close[0] = CloseAt(1)
            /\ close[n - 1] = CloseAt(Len(Rows))

\* C22 witness: 'ffill' returned a series with an inserted day between two
\* input observations whose closes differ
C22_Witness ==
    /\ Cleaned("fill_missing_dates")
    /\ out.method = "ffill"
    /\ out.result # None
    /\ \E j \in 2..(Len(ResultRows) - 1) :
         /\ ResultRows[j][1] \notin InputDates
         /\ ResultRows[j + 1][1] \in InputDates
         /\ ResultRows[j + 1][2] # ResultRows[j][2]

(***************************************************************************)
(* Properties of Portfolio, checked under PortfolioSpec.                   *)
(***************************************************************************)
Returned == out.op = "get_portfolio_returns" /\ out.value.type = "Series"

Held == portfolio.holdings

\* the date of the observation of a series that carries an index label
DateOf(series, label) == Column(series.data, "date")[label]

\* the dates of the return stream of the i-th holding
ReturnDates(i) ==
    {DateOf(Held[i][2], j) : j \in DOMAIN get_returns(Held[i][2])}

\* the return of the i-th holding on date d
ReturnOn(i, d) ==
    LET r == get_returns(Held[i][2])
    IN  r[CHOOSE j \in DOMAIN r : DateOf(Held[i][2], j) = d]

CommonDates == {d \in 1..MaxDate : \A i \in 1..Len(Held) : d \in ReturnDates(i)}

\* C1: every entry of get_portfolio_returns() belongs to one date, on which
\* every held symbol has a return, and equals the sum over the held symbols of
\* (the symbol's return on that date x the symbol's weight).
C1_WeightedSumOnSameDate ==
    Returned =>
        \A k \in DOMAIN out.value.value :
            \E d \in CommonDates :
                out.value.value[k] =
                    SumOver([i \in 1..Len(Held) |->
                                Mul(ReturnOn(i, d), portfolio.weights[Held[i][1]])],
                            1..Len(Held))

\* C2: the dates of the result of get_portfolio_returns() are exactly the
\* dates common to the return streams of all holdings, one entry for each.
C2_DatesAreIntersection ==
    Returned =>
        /\ {DateOf(Held[i][2], k) : k \in DOMAIN out.value.value, i \in 1..Len(Held)}
              = CommonDates
        /\ Cardinality(DOMAIN out.value.value) = Cardinality(CommonDates)

\* C3 as stated: the weights of every constructed Portfolio sum to 1.0
\* within tolerance, inputs that are empty or sum to zero included.
C3_WeightsSumToOne ==
    portfolio # None => isclose(total_of(portfolio.weights), One)

\* C3 as amended: the weights of every Portfolio constructed from input
\* weights with a non-zero sum add up to 1.0 within tolerance, whatever the
\* scale of the input; input weights that sum to zero construct a Portfolio
\* only when they are empty, and its weights stay empty.
C3_NonZeroInputSumsToOne ==
    portfolio # None =>
        IF total_of(call.weights) # Zero
        THEN isclose(total_of(portfolio.weights), One)
        ELSE DOMAIN call.weights = {} /\ DOMAIN portfolio.weights = {}

\* C3 witness: a Portfolio of two holdings was constructed from unequal
\* weights that did not sum to 1.0 and were rescaled
C3_Witness ==
    /\ portfolio # None
    /\ Cardinality(DOMAIN portfolio.weights) = 2
    /\ ~isclose(total_of(call.weights), One)
    /\ \E a, b \in DOMAIN call.weights : call.weights[a] # call.weights[b]

\* the input weights of the constructor call sum to 1.0 within the tolerance
\* 1e-8 + 1e-5 * 1.0 of np.isclose
InputSumsToOne ==
    LET total == total_of(call.weights)
        diff == IF Less(total, One) THEN Sub(One, total) ELSE Sub(total, One)
    IN  Leq(diff, <<1001, 100000000>>)

\* every weight of the portfolio is the input weight over the input total
Rescaled ==
    /\ DOMAIN portfolio.weights = DOMAIN call.weights
    /\ \A k \in DOMAIN call.weights :
         Mul(portfolio.weights[k], total_of(call.weights)) = call.weights[k]

\* C21 as stated: input weights (over the keys of the holdings) that do not
\* sum to 1.0 within tolerance are each replaced by weight / sum and a
\* warning is emitted; input weights that sum to 1.0 are left unchanged and
\* no warning is emitted.
C21_RescaledAndWarned ==
    (out.op = "Portfolio" /\ Keys(call.holdings) = DOMAIN call.weights) =>
        IF InputSumsToOne
        THEN portfolio # None /\ portfolio.weights = call.weights /\ ~out.warned
        ELSE portfolio # None /\ Rescaled /\ out.warned

\* C21 as amended: the warning is emitted exactly when the input weights do
\* not sum to 1.0 within tolerance.  Input weights that sum to 1.0 are left
\* unchanged.  Input weights with another, non-zero sum are each replaced by
\* weight / sum, which keeps their ratios.  Input weights that are not empty
\* and sum to zero cannot be rescaled: after the warning the construction
\* ends in ZeroDivisionError and there is no portfolio.  An empty mapping is
\* constructed as it is, with the warning.
C21_RescaledUnlessZeroSum ==
    (out.op = "Portfolio" /\ Keys(call.holdings) = DOMAIN call.weights) =>
        /\ out.warned <=> ~InputSumsToOne
        /\ IF InputSumsToOne THEN portfolio # None /\ portfolio.weights = call.weights
           ELSE IF total_of(call.weights) = Zero /\ DOMAIN call.weights # {}
           THEN portfolio = None /\ err.type = "ZeroDivisionError"
           ELSE /\ portfolio # None
                /\ Rescaled
                /\ \A a, b \in DOMAIN call.weights :
                     Mul(portfolio.weights[a], call.weights[b])
                        = Mul(portfolio.weights[b], call.weights[a])

\* C21 witness: two unequal weights summing to 1.5 were rescaled to 1/3 and
\* 2/3 with the warning
C21_Witness ==
    /\ out.op = "Portfolio"
    /\ out.warned
    /\ portfolio # None
    /\ total_of(call.weights) = <<3, 2>>
    /\ \E a, b \in DOMAIN portfolio.weights :
         portfolio.weights[a] = <<1, 3>> /\ portfolio.weights[b] = <<2, 3>>

\* C4: constructing a Portfolio whose holdings keys and weights keys differ
\* always fails with the ValueError of the key-set check, for every weight
\* mapping, and with nothing else.
C4_KeyMismatchRaisesWeightMismatch ==
    (call.op = "Portfolio" /\ Keys(call.holdings) # DOMAIN call.weights)
        => (err = WeightMismatch /\ portfolio = None)

\* C18: get_portfolio_returns() of a Portfolio without holdings is an empty
\* return stream: a Series of length 0.
C18_EmptyHoldingsEmptyStream ==
    (out.op = "get_portfolio_returns" /\ Len(Held) = 0)
        => (out.value.type = "Series" /\ DOMAIN out.value.value = {})

(***************************************************************************)
(* Properties of the statistics and the simulation of a portfolio, checked *)
(* under MonteCarloSpec.                                                   *)
(***************************************************************************)
Simulated == out.op = "monte_carlo_simulation" /\ err = NoError

\* C15: monte_carlo_simulation(n, d, v0) returns an array of n rows and d
\* columns; in every row column 0 is v0 x (1 + the first draw of the row) and
\* every later column is the column before it x (1 + the draw of its day),
\* i.e. v0 x the product of (1 + draw) over the days so far.
C15_CompoundedPaths ==
    Simulated =>
        LET n == call.n_simulations
            d == call.n_days
            v0 == call.initial_investment
            a == out.value.rows
            r == out.draws
        IN  /\ out.value.shape = <<n, d>>
            /\ Len(a) = n
            /\ \A i \in 1..n :
                 /\ Len(a[i]) = d
                 /\ \A j \in 1..d :
                      a[i][j] = Mul(IF j = 1 THEN v0 ELSE a[i][j - 1], Add(One, r[i][j]))

\* C15 witness: two simulations of two days were returned, with draws that
\* differ between the days and between the simulations
C15_Witness ==
    /\ Simulated
    /\ call.n_simulations = 2
    /\ call.n_days = 2
    /\ out.draws[1][1] # out.draws[1][2]
    /\ out.draws[1] # out.draws[2]
    /\ ~IsNaN(out.value.rows[2][2])

\* C17: when the return stream of the portfolio has a standard deviation of
\* zero, the sharpe_ratio of get_stats() is 0, as in the per-series
\* statistics, and neither infinite nor undefined.
C17_PortfolioSharpeGuarded ==
    (out.op = "portfolio_get_stats" /\ err = NoError /\ out.value.std_return = Zero)
        => out.value.sharpe_ratio.tag = "zero"

(***************************************************************************)
(* Properties of AlphaVantageExtractor, checked under ExtractorSpec and    *)
(* DownloadSpec.                                                           *)
(***************************************************************************)
\* C23: every API call of one extractor goes through _rate_limit, so that any
\* two consecutive calls start at least 12 seconds apart and no more than 5
\* calls start within any window of 60 seconds (a window from t up to, not
\* including, t + 60).
C23_TwelveSecondsApart ==
    /\ extractor # None => extractor.call_count = Len(log)
    /\ \A i \in 1..(Len(log) - 1) : log[i + 1].t - log[i].t >= 12
    /\ \A i \in 1..Len(log) :
         Cardinality({j \in 1..Len(log) :
                        log[i].t <= log[j].t /\ log[j].t < log[i].t + 60}) <= 5

\* C23 witness: six calls were started, the last of them 60 seconds after
\* the first
C23_Witness ==
    /\ Len(log) = 6
    /\ log[6].t = log[1].t + 60

\* the requests that get_multiple_symbols made, and the keys of what it returned
Attempts == SubSeq(log, call.before + 1, Len(log))

ResultKeys(results) == {results[i][1] : i \in 1..Len(results)}

Downloaded == call.op = "get_multiple_symbols"

====
